---- MODULE Spec2Model ----
(***************************************************************************)
(* Model of main.py: a launcher that keeps one remote sandbox session per  *)
(* credential key alive through a connect / run / cooldown cycle.          *)
(*                                                                         *)
(* One asyncio event loop runs main_async (the launch scheduler) and one   *)
(* run_sandbox_lifecycle task per key.  A step of the model is the code a  *)
(* coroutine runs between two suspension points (await).                   *)
(*                                                                         *)
(* Environment assumptions: AsyncSandbox.create returns a new sandbox on   *)
(* every successful call; leaving the `async with` block kills the sandbox *)
(* and that kill does not itself raise; printing does not raise.           *)
(***************************************************************************)
EXTENDS Integers, Sequences, FiniteSets, TLC

\* ---------------------------------------------------------------- bounds
\* A controller may go round its `while True` loop this many times after its
\* first cycle.
MaxCycles == 1
\* random.randint(lo, hi) is explored on the SampleWidth values nearest each end.
SampleWidth == 1
\* Longest os.environ and longest --key list of the launch scheduler's inputs.
MaxEnv == 2
MaxKeyArgs == 2

\* ------------------------------------------------------- program constants
MAX_CONNECTION_ATTEMPTS == 10
FAIL_COOLDOWN_MIN == 60
FAIL_COOLDOWN_MAX == 250
GRACE_MIN == 30
GRACE_MAX == 45
EXIT_OK == 0
EXIT_FAILURE == 1

\* Python's None, where a string is expected and where a sandbox is expected.
None == "None"
NoSandbox == <<>>
\* exit while the process runs.
NotExited == [code |-> -1, msg |-> None]

\* ------------------------------------------------------------------ inputs
\* The timing options explored: the argparse defaults, each pair inverted, both
\* inverted, and both pairs degenerate (min = max).
Timing(rmin, rmax, dmin, dmax) ==
    [ run_time_min |-> rmin, run_time_max |-> rmax,
      downtime_min |-> dmin, downtime_max |-> dmax ]
TimingChoices ==
    { Timing(230, 340, 30, 45), Timing(340, 230, 30, 45),
      Timing(230, 340, 50, 40), Timing(340, 230, 50, 40),
      Timing(230, 230, 30, 30) }
\* The key values explored: two credentials and a blank string.
KeyVals == {"A", "B", " "}
\* os.environ as the list of its entries; `prefixed` is k.startswith(ENV_PREFIX).
EnvEntry(p, v) == [prefixed |-> p, value |-> v]
EnvironChoices ==
    { <<>>,
      <<EnvEntry(TRUE, "A")>>,
      <<EnvEntry(FALSE, "B"), EnvEntry(TRUE, " ")>> }
\* args.key or []: the --key values, empty when --key is never given.
KeyArgChoices == { <<>>, <<"A">>, <<"B">>, <<" ">> }

VARIABLES
    environ,    \* os.environ, read once by env_keys()
    args,       \* the parsed command line
    keys,       \* main_async: the deduplicated key list
    mpc,        \* main_async: "start", "grace", "gather", "exited"
    i,          \* main_async: index of the launch loop
    grace,      \* main_async: the grace period being slept, 0 when none
    pauses,     \* number of grace periods started so far
    tasks,      \* main_async: the task list; tasks[n] is the state of task n
    sessions,   \* the gateway's sandboxes: id -> [api_key, state]
    exit        \* NotExited while running, else [code, msg]

vars == <<environ, args, keys, mpc, i, grace, pauses, tasks, sessions, exit>>

\* ----------------------------------------------------------------- helpers
\* random.randint(lo, hi): any integer of lo..hi (empty range: ValueError).
RandInt(lo, hi) ==
    { d \in lo..hi : d - lo < SampleWidth \/ hi - d < SampleWidth }

\* str.strip() on the key values the model uses.
Strip(v) == IF v = " " THEN "" ELSE v

\* Mutant: the `v.strip()` test is missing.
RECURSIVE env_keysKeepBlank(_)
env_keysKeepBlank(env) ==
    IF env = <<>> THEN <<>>
    ELSE LET e == Head(env)
         IN  (IF e.prefixed THEN <<e.value>> ELSE <<>>)
             \o env_keysKeepBlank(Tail(env))

\* env_keys(): the values of the prefixed variables that are not blank.
RECURSIVE env_keys(_)
env_keys(env) ==
    IF env = <<>> THEN <<>>
    ELSE LET e == Head(env)
         IN  (IF e.prefixed /\ Strip(e.value) # "" THEN <<e.value>> ELSE <<>>)
             \o env_keys(Tail(env))

Range(s) == { s[n] : n \in 1..Len(s) }

\* Mutant: the `k not in seen` test is missing.
DedupFromKeepAll(ks, src) == ks \o src

\* The `seen` / `keys` loop: keep the first occurrence of every value.
RECURSIVE DedupFrom(_, _)
DedupFrom(ks, src) ==
    IF src = <<>> THEN ks
    ELSE IF Head(src) \in Range(ks) THEN DedupFrom(ks, Tail(src))
    ELSE DedupFrom(Append(ks, Head(src)), Tail(src))

\* env_keys() + (args.key or [])
CombinedKeys == env_keys(environ) \o args.key

BuildKeys == DedupFrom(<<>>, CombinedKeys)

\* Mutant: only the run-time pair is checked.
ValidateRunTimeOnly(a) ==
    IF a.run_time_min > a.run_time_max
    THEN "Error: --run-time-min cannot be greater than --run-time-max"
    ELSE "ok"

\* The two min/max checks; "ok" when neither calls sys.exit.
Validate(a) ==
    IF a.run_time_min > a.run_time_max
    THEN "Error: --run-time-min cannot be greater than --run-time-max"
    ELSE IF a.downtime_min > a.downtime_max
    THEN "Error: --downtime-min cannot be greater than --downtime-max"
    ELSE "ok"

\* sys.exit(<message>): the message goes to stderr and the status is 1.
SysExit(msg) == [code |-> EXIT_FAILURE, msg |-> msg]

\* --------------------------------------------- run_sandbox_lifecycle (one task)
\* asyncio.create_task(run_sandbox_lifecycle(key, cmd, idx, ...)): the coroutine
\* is scheduled and has not run yet.
\*   pc            where the coroutine is suspended
\*   attempt       the `for attempt in range(...)` variable
\*   sbx_instance  the sandbox held, NoSandbox for None
\*   exc           the exception the run scope is being left with, None when none
\*   timer         the asyncio.sleep in progress, 0 when none
\*   opens, backoffs   AsyncSandbox.create calls and fail cooldowns of this cycle
\*   cycle         completed iterations of `while True`
\*   report        what the last run scope printed about its end
\*   result        the task's outcome: "pending", "returned", "raised", "cancelled"
NewTask(key, idx) ==
    [ key |-> key, idx |-> idx, pc |-> "ready", attempt |-> 0,
      sbx_instance |-> NoSandbox, run_time |-> 0, downtime |-> 0, exc |-> None,
      timer |-> 0, opens |-> 0, backoffs |-> 0, cycle |-> 0,
      report |-> "none", slept |-> TRUE, result |-> "pending" ]

\* Mutant: every task is handed the sandbox of task 0.
SandboxIdShared(c) == <<0, c.cycle>>

\* The id of the sandbox a task's create call of this cycle returns.
SandboxId(c) == <<c.idx, c.cycle>>

\* `await AsyncSandbox.create(api_key=key, timeout=0)` is issued.
IssueOpen(c) ==
    [c EXCEPT !.pc = "opening", !.opens = @ + 1, !.timer = 0, !.slept = FALSE]

\* Top of `while True`: sbx_instance = None, the retry loop starts at attempt 0.
BeginCycle(c) ==
    IssueOpen([c EXCEPT !.sbx_instance = NoSandbox, !.attempt = 0,
                        !.opens = 0, !.backoffs = 0, !.exc = None])

\* Mutant: the last-attempt test is off by one, so the 10th failure sleeps too.
OnOpenFailOffByOne(c, d) ==
    IF c.attempt < MAX_CONNECTION_ATTEMPTS
    THEN [c EXCEPT !.pc = "backoff", !.timer = d, !.backoffs = @ + 1,
                   !.slept = TRUE]
    ELSE [c EXCEPT !.pc = "abandoned", !.result = "returned"]

\* Mutant: a failed attempt is retried at once, without the fail cooldown.
OnOpenFailNoSleep(c, d) ==
    IF c.attempt < MAX_CONNECTION_ATTEMPTS - 1
    THEN IssueOpen([c EXCEPT !.attempt = @ + 1])
    ELSE [c EXCEPT !.pc = "abandoned", !.result = "returned"]

\* Mutant: the key is abandoned at the first failed attempt.
OnOpenFailGiveUp(c, d) ==
    [c EXCEPT !.pc = "abandoned", !.result = "returned"]

\* `except Exception` of the retry loop; d is the sampled fail_cooldown.
OnOpenFail(c, d) ==
    IF c.attempt < MAX_CONNECTION_ATTEMPTS - 1
    THEN [c EXCEPT !.pc = "backoff", !.timer = d, !.backoffs = @ + 1,
                   !.slept = TRUE]
    ELSE [c EXCEPT !.pc = "abandoned", !.result = "returned"]

\* Mutant: the two samples are assigned the wrong way round.
OnOpenOkSwapped(c, sbx, rt, dt) ==
    [c EXCEPT !.sbx_instance = sbx, !.attempt = 0, !.opens = 0, !.backoffs = 0,
              !.pc = "launch", !.run_time = dt, !.downtime = rt]

\* Mutant: the safeguard test is inverted.
OnOpenOkSafeguardInverted(c, sbx, rt, dt) ==
    LET held == [c EXCEPT !.sbx_instance = sbx, !.attempt = 0, !.opens = 0,
                          !.backoffs = 0]
    IN  IF held.sbx_instance # NoSandbox
        THEN [held EXCEPT !.pc = "safeguard", !.result = "returned"]
        ELSE [held EXCEPT !.pc = "launch", !.run_time = rt, !.downtime = dt]

\* create returned sbx: break, the safeguard, the two samples, then the run
\* scope is entered and sbx.commands.run is awaited.  The loop variable and the
\* counts of the retry loop are not read after the break, so they are cleared.
OnOpenOk(c, sbx, rt, dt) ==
    LET held == [c EXCEPT !.sbx_instance = sbx, !.attempt = 0, !.opens = 0,
                          !.backoffs = 0]
    IN  IF held.sbx_instance = NoSandbox
        THEN [held EXCEPT !.pc = "safeguard", !.result = "returned"]
        ELSE [held EXCEPT !.pc = "launch", !.run_time = rt, !.downtime = dt]

\* The body of the `async with` block ends, normally (None) or with exception
\* exc.  run_time is not read again before it is sampled anew, so it is cleared.
LeaveBody(c, exc) ==
    [c EXCEPT !.pc = "closing", !.exc = exc, !.timer = 0, !.run_time = 0]

\* Mutant: `except Exception` comes first and also catches the timeout.
ReportOfExceptionFirst(exc) ==
    IF exc \in {"Exception", "TimeoutError"} THEN "exec_error" ELSE "none"

\* Which except clause of the run scope handles the exception it is left with.
ReportOf(exc) ==
    IF exc = "TimeoutError" THEN "run_time_ended"
    ELSE IF exc = "Exception" THEN "exec_error"
    ELSE "none"

\* Mutant: an execution error ends the task instead of starting the cooldown.
OnScopeExitReturnOnError(c) ==
    IF c.exc = "Exception"
    THEN [c EXCEPT !.pc = "abandoned", !.report = ReportOf(c.exc),
                   !.exc = None, !.result = "returned"]
    ELSE [c EXCEPT !.pc = "cooldown", !.report = ReportOf(c.exc), !.exc = None,
                   !.timer = c.downtime, !.slept = TRUE]

\* Mutant: the execution error is logged and raised again.
OnScopeExitReraise(c) ==
    IF c.exc = "Exception"
    THEN [c EXCEPT !.pc = "failed", !.report = ReportOf(c.exc),
                   !.result = "raised"]
    ELSE [c EXCEPT !.pc = "cooldown", !.report = ReportOf(c.exc), !.exc = None,
                   !.timer = c.downtime, !.slept = TRUE]

\* Mutant: the cooldown sleep is skipped and the next iteration connects at
\* once.
OnScopeExitSkipCooldown(c) ==
    IF c.cycle < MaxCycles
    THEN BeginCycle([c EXCEPT !.cycle = @ + 1, !.report = ReportOf(c.exc),
                              !.run_time = 0, !.downtime = 0])
    ELSE [c EXCEPT !.pc = "cooldown", !.report = ReportOf(c.exc), !.exc = None,
                   !.timer = c.downtime, !.slept = TRUE]

\* After the run scope: the except clauses, then `await asyncio.sleep(downtime)`.
OnScopeExit(c) ==
    [c EXCEPT !.pc = "cooldown", !.report = ReportOf(c.exc), !.exc = None,
              !.timer = c.downtime, !.slept = TRUE]

\* The next pass of the retry loop after a fail cooldown.
OnBackoffWake(c) == IssueOpen([c EXCEPT !.attempt = @ + 1])

\* The next iteration of `while True` after the cooldown.  run_time and downtime
\* are not read again before they are sampled anew, so they are cleared here.
OnCooldownWake(c) ==
    BeginCycle([c EXCEPT !.cycle = @ + 1, !.run_time = 0, !.downtime = 0])

\* Mutant: the run scope is left without killing the sandbox.
KillNothing(ss, sbx) == ss

\* sandbox.kill() on leaving `async with sbx_instance as sbx`.
Kill(ss, sbx) == [ss EXCEPT ![sbx].state = "closed"]

\* The gateway records a sandbox created for api_key.
Create(ss, sbx, key) ==
    [ s \in DOMAIN ss \cup {sbx} |->
        IF s = sbx THEN [api_key |-> key, state |-> "open"] ELSE ss[s] ]

Tasks == 1..Len(tasks)
MainVars == <<environ, args, keys, mpc, i, grace, pauses, exit>>

\* asyncio.run is running the event loop (main_async sleeps or gathers).
Running == mpc \in {"grace", "gather"}

\* Mutant: the coroutines are awaited one after the other instead of being
\* handed to the event loop as tasks.
RunnableInTurn(n) ==
    /\ Running
    /\ tasks[n].result = "pending"
    /\ \A m \in 1..(n - 1) : tasks[m].result # "pending"

\* Task n was handed to the event loop by asyncio.create_task: the loop resumes
\* it whenever the awaitable it is suspended on is done.
Runnable(n) == Running /\ tasks[n].result = "pending"

\* What cancellation does to a task: CancelledError is raised at its await and
\* unwinds the coroutine, whose local variables are gone with it.
Cancel(c) ==
    IF c.result = "pending"
    THEN [NewTask(c.key, c.idx) EXCEPT !.pc = "cancelled",
                                       !.result = "cancelled",
                                       !.cycle = c.cycle, !.report = c.report]
    ELSE c

\* The sandboxes whose `async with` block a cancelled task unwinds through.
InScope(ts) ==
    { ts[n].sbx_instance :
        n \in { m \in 1..Len(ts) :
                  ts[m].pc \in {"launch", "info", "wait", "closing"} } }

\* ------------------------------------------------------------------- state
Init ==
    /\ environ \in EnvironChoices
    /\ \E t \in TimingChoices, k \in KeyArgChoices :
            args = [ run_time_min |-> t.run_time_min,
                     run_time_max |-> t.run_time_max,
                     downtime_min |-> t.downtime_min,
                     downtime_max |-> t.downtime_max, key |-> k ]
    /\ keys = <<>>
    /\ mpc = "start"
    /\ i = 0
    /\ grace = 0
    /\ pauses = 0
    /\ tasks = <<>>
    /\ sessions = <<>>
    /\ exit = NotExited

\* ------------------------------------------------------ main_async actions
\* Mutant: the grace period is slept after the last task too.
LaunchTaskPauseAfterLast(n) ==
    /\ i' = n
    /\ tasks' = Append(tasks, NewTask(keys'[n + 1], n))
    /\ \E g \in RandInt(GRACE_MIN, GRACE_MAX) :
            /\ grace' = g
            /\ pauses' = pauses + 1
            /\ mpc' = "grace"

\* One pass of the launch loop for index n: create the task, then either start
\* the grace period or leave the loop for asyncio.gather.
LaunchTask(n) ==
    /\ i' = n
    /\ tasks' = Append(tasks, NewTask(keys'[n + 1], n))
    /\ IF n < Len(keys') - 1
       THEN \E g \in RandInt(GRACE_MIN, GRACE_MAX) :
                /\ grace' = g
                /\ pauses' = pauses + 1
                /\ mpc' = "grace"
       ELSE /\ grace' = 0
            /\ pauses' = pauses
            /\ mpc' = "gather"

\* A min/max pair is inverted: sys.exit with the error message.
ExitInvalidConfig ==
    /\ mpc = "start"
    /\ Validate(args) # "ok"
    /\ mpc' = "exited"
    /\ exit' = SysExit(Validate(args))
    /\ UNCHANGED <<environ, args, keys, i, grace, pauses, tasks, sessions>>

\* The key list is empty: sys.exit("No API keys found ...").
ExitNoKeys ==
    /\ mpc = "start"
    /\ Validate(args) = "ok"
    /\ BuildKeys = <<>>
    /\ keys' = BuildKeys
    /\ mpc' = "exited"
    /\ exit' = SysExit("No API keys found")
    /\ UNCHANGED <<environ, args, i, grace, pauses, tasks, sessions>>

\* Start-up succeeds: the key list is built and the first task is created.
LaunchFirst ==
    /\ mpc = "start"
    /\ Validate(args) = "ok"
    /\ BuildKeys # <<>>
    /\ keys' = BuildKeys
    /\ LaunchTask(0)
    /\ UNCHANGED <<environ, args, sessions, exit>>

\* The grace period is over: the next pass of the launch loop.
GraceWake ==
    /\ mpc = "grace"
    /\ keys' = keys
    /\ IF i + 1 >= Len(keys)
       THEN /\ mpc' = "gather"
            /\ grace' = 0
            /\ UNCHANGED <<i, pauses, tasks>>
       ELSE LaunchTask(i + 1)
    /\ UNCHANGED <<environ, args, sessions, exit>>

\* asyncio.gather(*tasks) without return_exceptions: it raises as soon as one
\* task has raised, and returns once every task has returned.
GatherOutcome(ts) ==
    IF \E n \in 1..Len(ts) : ts[n].result = "raised" THEN "raised"
    ELSE IF \A n \in 1..Len(ts) : ts[n].result = "returned" THEN "returned"
    ELSE "pending"

\* gather is over and asyncio.run returns or re-raises.
Gather ==
    /\ mpc = "gather"
    /\ GatherOutcome(tasks) # "pending"
    /\ mpc' = "exited"
    /\ exit' = IF GatherOutcome(tasks) = "raised"
               THEN [code |-> EXIT_FAILURE, msg |-> "Traceback"]
               ELSE [code |-> EXIT_OK, msg |-> None]
    /\ UNCHANGED <<environ, args, keys, i, grace, pauses, tasks, sessions>>

\* ------------------------------------------- run_sandbox_lifecycle actions
\* The task runs for the first time, up to its first create call.
TaskStart(n) ==
    /\ Runnable(n)
    /\ tasks[n].pc = "ready"
    /\ tasks' = [tasks EXCEPT ![n] = BeginCycle(@)]
    /\ UNCHANGED <<MainVars, sessions>>

\* AsyncSandbox.create returns a new sandbox.
OpenOk(n) ==
    /\ Runnable(n)
    /\ tasks[n].pc = "opening"
    /\ \E rt \in RandInt(args.run_time_min, args.run_time_max),
          dt \in RandInt(args.downtime_min, args.downtime_max) :
            tasks' = [tasks EXCEPT ![n] = OnOpenOk(@, SandboxId(@), rt, dt)]
    /\ sessions' = Create(sessions, SandboxId(tasks[n]), tasks[n].key)
    /\ UNCHANGED MainVars

\* AsyncSandbox.create raises.
OpenFail(n) ==
    /\ Runnable(n)
    /\ tasks[n].pc = "opening"
    /\ \E d \in RandInt(FAIL_COOLDOWN_MIN, FAIL_COOLDOWN_MAX) :
            tasks' = [tasks EXCEPT ![n] = OnOpenFail(@, d)]
    /\ UNCHANGED <<MainVars, sessions>>

\* asyncio.sleep(fail_cooldown) is over.
BackoffWake(n) ==
    /\ Runnable(n)
    /\ tasks[n].pc = "backoff"
    /\ tasks' = [tasks EXCEPT ![n] = OnBackoffWake(@)]
    /\ UNCHANGED <<MainVars, sessions>>

\* sbx.commands.run returns the background process; sbx.get_info is awaited.
LaunchOk(n) ==
    /\ Runnable(n)
    /\ tasks[n].pc = "launch"
    /\ tasks' = [tasks EXCEPT ![n].pc = "info"]
    /\ UNCHANGED <<MainVars, sessions>>

\* sbx.get_info returns; "Launched" is printed and proc.wait() is awaited with
\* the run_time deadline.
InfoOk(n) ==
    /\ Runnable(n)
    /\ tasks[n].pc = "info"
    /\ tasks' = [tasks EXCEPT ![n].pc = "wait", ![n].timer = tasks[n].run_time]
    /\ UNCHANGED <<MainVars, sessions>>

\* The workload ends before the deadline: the run scope is left normally.
WorkloadCompletes(n) ==
    /\ Runnable(n)
    /\ tasks[n].pc = "wait"
    /\ tasks' = [tasks EXCEPT ![n] = LeaveBody(@, None)]
    /\ UNCHANGED <<MainVars, sessions>>

\* The deadline passes first: asyncio.wait_for raises asyncio.TimeoutError.
DeadlineElapses(n) ==
    /\ Runnable(n)
    /\ tasks[n].pc = "wait"
    /\ tasks' = [tasks EXCEPT ![n] = LeaveBody(@, "TimeoutError")]
    /\ UNCHANGED <<MainVars, sessions>>

\* commands.run, get_info or proc.wait raises.
ExecError(n) ==
    /\ Runnable(n)
    /\ tasks[n].pc \in {"launch", "info", "wait"}
    /\ tasks' = [tasks EXCEPT ![n] = LeaveBody(@, "Exception")]
    /\ UNCHANGED <<MainVars, sessions>>

\* The `async with` block is left: the sandbox is killed, the except clauses
\* run, the cooldown is announced and slept.
ScopeExit(n) ==
    /\ Runnable(n)
    /\ tasks[n].pc = "closing"
    /\ sessions' = Kill(sessions, tasks[n].sbx_instance)
    /\ tasks' = [tasks EXCEPT ![n] = OnScopeExit(@)]
    /\ UNCHANGED MainVars

\* asyncio.sleep(downtime) is over: back to the top of `while True`.
CooldownWake(n) ==
    /\ Runnable(n)
    /\ tasks[n].pc = "cooldown"
    /\ tasks[n].cycle < MaxCycles
    /\ tasks' = [tasks EXCEPT ![n] = OnCooldownWake(@)]
    /\ UNCHANGED <<MainVars, sessions>>

\* KeyboardInterrupt: asyncio.run cancels every task and lets each unwind (the
\* run scopes kill their sandboxes), then the handler prints and the process ends.
Interrupt ==
    /\ Running
    /\ tasks' = [n \in Tasks |-> Cancel(tasks[n])]
    /\ sessions' = [s \in DOMAIN sessions |->
                      IF s \in InScope(tasks)
                      THEN [sessions[s] EXCEPT !.state = "closed"]
                      ELSE sessions[s]]
    /\ mpc' = "exited"
    /\ grace' = 0
    /\ exit' = [code |-> EXIT_OK, msg |-> "Interrupted - shutting down."]
    /\ UNCHANGED <<environ, args, keys, i, pauses>>

TaskStep(n) ==
    \/ TaskStart(n)
    \/ OpenOk(n)
    \/ OpenFail(n)
    \/ BackoffWake(n)
    \/ LaunchOk(n)
    \/ InfoOk(n)
    \/ WorkloadCompletes(n)
    \/ DeadlineElapses(n)
    \/ ExecError(n)
    \/ ScopeExit(n)
    \/ CooldownWake(n)

\* main_async up to asyncio.gather.
LaunchStep ==
    \/ ExitInvalidConfig
    \/ ExitNoKeys
    \/ LaunchFirst
    \/ GraceWake

MainStep ==
    \/ ExitInvalidConfig
    \/ ExitNoKeys
    \/ LaunchFirst
    \/ GraceWake
    \/ Gather

Next ==
    \/ MainStep
    \/ \E n \in Tasks : TaskStep(n)
    \/ Interrupt

Spec == Init /\ [][Next]_vars

\* The launch scheduler on its own, on every environment of at most MaxEnv
\* entries and every --key list of at most MaxKeyArgs values: main_async from
\* its start to asyncio.gather (it reads nothing the tasks write before that).
SeqsUpTo(S, n) == UNION { [1..m -> S] : m \in 0..n }

LaunchInit ==
    /\ environ \in SeqsUpTo([prefixed : BOOLEAN, value : KeyVals], MaxEnv)
    /\ \E t \in TimingChoices, k \in SeqsUpTo(KeyVals, MaxKeyArgs) :
            args = [ run_time_min |-> t.run_time_min,
                     run_time_max |-> t.run_time_max,
                     downtime_min |-> t.downtime_min,
                     downtime_max |-> t.downtime_max, key |-> k ]
    /\ keys = <<>>
    /\ mpc = "start"
    /\ i = 0
    /\ grace = 0
    /\ pauses = 0
    /\ tasks = <<>>
    /\ sessions = <<>>
    /\ exit = NotExited

LaunchSpec == LaunchInit /\ [][LaunchStep]_vars

\* The same program when the gateway accepts every create call and nobody
\* interrupts it.  The event loop resumes every task whose await is done, every
\* sleep ends and every gateway call is answered: weak fairness of each task.
AcceptedStep(n) ==
    \/ TaskStart(n)
    \/ OpenOk(n)
    \/ LaunchOk(n)
    \/ InfoOk(n)
    \/ WorkloadCompletes(n)
    \/ DeadlineElapses(n)
    \/ ExecError(n)
    \/ ScopeExit(n)
    \/ CooldownWake(n)

AcceptingNext ==
    \/ LaunchStep
    \/ \E n \in Tasks : AcceptedStep(n)

\* Every position a task can have in the task list.
TaskIds == 1..Cardinality(KeyVals)

LiveSpec ==
    /\ Init
    /\ [][AcceptingNext]_vars
    /\ WF_vars(LaunchStep)
    /\ \A n \in TaskIds : WF_vars(n \in Tasks /\ AcceptedStep(n))

\* ================================================================== claims
\* A step in which task n's pending create call fails (the task neither
\* connects nor is cancelled).
OpenFailed(n) ==
    /\ tasks[n].pc = "opening"
    /\ tasks'[n].pc \notin {"opening", "launch", "cancelled"}

\* C1: one pass of the connection retry loop issues at most 10 create calls;
\* when the 10th fails the task is abandoned, and an abandoned task never
\* changes again: no further create call is issued for its key.
C1_RetryBudget ==
    /\ [](\A n \in Tasks :
            /\ tasks[n].opens <= 10
            /\ tasks[n].pc = "abandoned" => tasks[n].opens = 10)
    /\ [][\A n \in Tasks :
            /\ (OpenFailed(n) /\ tasks[n].opens = 10)
                  => tasks'[n].pc = "abandoned"
            /\ tasks[n].pc = "abandoned"
                  => /\ n \in DOMAIN tasks'
                     /\ tasks'[n] = tasks[n]]_vars

C1_Witness ==
    \E n \in Tasks :
        /\ tasks[n].pc = "abandoned"
        /\ tasks[n].opens = 10
        /\ mpc = "exited"

\* C2: in a cycle whose every create call fails there are exactly 10 calls;
\* each of the first 9 failures is followed by a sleep of 60..250 seconds and
\* then by the next call, and the 10th failure is followed by no sleep.
C2_BackoffSchedule ==
    /\ [](\A n \in Tasks :
            /\ tasks[n].pc = "opening" => tasks[n].backoffs = tasks[n].opens - 1
            /\ tasks[n].pc = "backoff"
                  => /\ tasks[n].timer \in 60..250
                     /\ tasks[n].backoffs = tasks[n].opens
                     /\ tasks[n].opens <= 9
            /\ tasks[n].pc = "abandoned"
                  => /\ tasks[n].opens = 10
                     /\ tasks[n].backoffs = 9
                     /\ tasks[n].timer = 0)
    /\ [][\A n \in Tasks :
            /\ (OpenFailed(n) /\ tasks[n].opens < 10)
                  => /\ tasks'[n].pc = "backoff"
                     /\ tasks'[n].opens = tasks[n].opens
            /\ (OpenFailed(n) /\ tasks[n].opens >= 10)
                  => tasks'[n].pc # "backoff"
            /\ (tasks[n].pc = "backoff" /\ tasks'[n].pc \notin {"backoff", "cancelled"})
                  => /\ tasks'[n].pc = "opening"
                     /\ tasks'[n].opens = tasks[n].opens + 1]_vars

C2_Witness ==
    \E n \in Tasks :
        /\ tasks[n].pc = "backoff"
        /\ tasks[n].backoffs = 9
        /\ tasks[n].timer = 250

\* C3: leaving the run scope by the deadline is reported as "run time ended",
\* leaving it by an error of the launch or the run as an execution error, and
\* in every case (early completion too) the cooldown sleep comes next.
C3_RunOutcome ==
    [][\A n \in Tasks :
        (tasks[n].pc = "closing" /\ tasks'[n].pc \notin {"closing", "cancelled"})
            => /\ tasks'[n].pc = "cooldown"
               /\ tasks'[n].timer = tasks[n].downtime
               /\ tasks[n].exc = "TimeoutError"
                     => tasks'[n].report = "run_time_ended"
               /\ tasks[n].exc = "Exception"
                     => tasks'[n].report = "exec_error"
               /\ tasks[n].exc = None
                     => tasks'[n].report = "none"]_vars

C3_Witness ==
    \E n \in Tasks :
        /\ tasks[n].pc = "cooldown"
        /\ tasks[n].report = "run_time_ended"
        /\ tasks[n].timer \in {30, 45}

\* C4: no run outcome abandons the key.  While the gateway accepts every create
\* call, a task that leaves its run scope (workload over, deadline, execution
\* error) sleeps the cooldown, connects again and is back in a run scope, for
\* as many cycles as the model lets a task make.
C4_RunsAgain ==
    \A n \in TaskIds :
        (n \in Tasks /\ tasks[n].pc = "closing" /\ tasks[n].cycle < MaxCycles)
            ~> (/\ n \in Tasks
                /\ tasks[n].pc = "launch"
                /\ tasks[n].sbx_instance \in DOMAIN sessions
                /\ sessions[tasks[n].sbx_instance].state = "open")

C4_Witness ==
    \E n \in Tasks :
        /\ tasks[n].cycle >= 1
        /\ tasks[n].pc = "launch"
        /\ tasks[n].report = "exec_error"

\* The sandboxes task n has been given by the gateway.
SandboxesOf(n) == { s \in DOMAIN sessions : s[1] = tasks[n].idx }

InRunScope(n) == tasks[n].pc \in {"launch", "info", "wait", "closing"}

\* C5: the sandbox of a cycle is open while the task is in its run scope and
\* has been killed when the cooldown sleep starts, whatever ended the run; the
\* sandbox a task uses is the one its create call of this cycle returned, and
\* every sandbox of an earlier cycle is closed and no longer held.
C5_SessionPerCycle ==
    \A n \in Tasks :
        /\ InRunScope(n)
              => /\ tasks[n].sbx_instance \in SandboxesOf(n)
                 /\ sessions[tasks[n].sbx_instance].state = "open"
                 /\ tasks[n].sbx_instance[2] = tasks[n].cycle
        /\ tasks[n].pc = "cooldown"
              => /\ tasks[n].sbx_instance \in SandboxesOf(n)
                 /\ sessions[tasks[n].sbx_instance].state = "closed"
        /\ tasks[n].pc \in {"opening", "backoff", "abandoned"}
              => tasks[n].sbx_instance = NoSandbox
        /\ \A s \in SandboxesOf(n) :
              s # tasks[n].sbx_instance => sessions[s].state = "closed"
        /\ Cardinality(SandboxesOf(n)) <= tasks[n].cycle + 1

C5_Witness ==
    \E n \in Tasks :
        /\ tasks[n].pc = "wait"
        /\ tasks[n].cycle = 1
        /\ tasks[n].report \in {"run_time_ended", "exec_error"}
        /\ sessions[<<tasks[n].idx, 0>>].state = "closed"
        /\ sessions[tasks[n].sbx_instance].state = "open"

\* C6: the launch loop creates one task per key, task n for the n-th key, and
\* sleeps one grace period of 30..45 seconds after every creation but the last:
\* N tasks and N-1 pauses once it reaches asyncio.gather.
C6_StaggeredLaunch ==
    /\ Len(tasks) <= Len(keys)
    /\ \A n \in Tasks : tasks[n].key = keys[n] /\ tasks[n].idx = n - 1
    /\ \A n, m \in Tasks : n # m => tasks[n].key # tasks[m].key
    /\ mpc = "start" => tasks = <<>> /\ pauses = 0
    /\ mpc = "grace"
          => /\ grace \in 30..45
             /\ pauses = Len(tasks)
             /\ Len(tasks) < Len(keys)
    /\ mpc = "gather"
          => /\ grace = 0
             /\ Len(tasks) = Len(keys)
             /\ pauses = Len(keys) - 1

C6_Witness ==
    /\ mpc = "gather"
    /\ Len(keys) = 3
    /\ Len(tasks) = 3
    /\ pauses = 2

\* C7: whether a task can take a step depends on that task alone (it is
\* pending and the event loop runs), never on the other tasks: a pending
\* create call can succeed whatever the others are doing; and a step of one
\* task leaves every other task as it was.
C7_Independent ==
    /\ [](\A n \in Tasks :
            /\ (ENABLED TaskStep(n))
                  <=> /\ Running
                      /\ tasks[n].result = "pending"
                      /\ ~(tasks[n].pc = "cooldown" /\ tasks[n].cycle >= MaxCycles)
            /\ (ENABLED OpenOk(n)) <=> (Running /\ tasks[n].pc = "opening"))
    /\ [][\A n \in Tasks :
            (Running' /\ tasks'[n] # tasks[n])
                => \A m \in Tasks \ {n} : tasks'[m] = tasks[m]]_vars

C7_Witness ==
    /\ Len(tasks) = 2
    /\ tasks[1].pc = "abandoned"
    /\ tasks[2].pc = "opening"
    /\ tasks[2].cycle = 0
    /\ tasks[2].opens = 1
    /\ ENABLED OpenOk(2)

\* A step in which task n meets or handles an error.
ErrorStep(n) ==
    \/ OpenFailed(n)
    \/ /\ tasks[n].pc \in {"launch", "info", "wait"}
       /\ tasks'[n].pc = "closing"
       /\ tasks'[n].exc # None
    \/ /\ tasks[n].pc = "closing"
       /\ tasks[n].exc # None
       /\ tasks'[n].pc \notin {"closing", "cancelled"}

\* C8: an error in one task stays in that task: the step changes no other task
\* and nothing of main_async, no task ever ends by raising, the process never
\* fails once tasks exist, and asyncio.gather returns only when every task has
\* returned.
C8_ErrorsContained ==
    /\ [](/\ \A n \in Tasks : tasks[n].result # "raised"
          /\ (mpc = "exited" /\ exit.code # 0) => tasks = <<>>)
    /\ [][/\ \A n \in Tasks :
                ErrorStep(n)
                    => /\ UNCHANGED MainVars
                       /\ \A m \in Tasks \ {n} : tasks'[m] = tasks[m]
          /\ (mpc = "gather" /\ mpc' = "exited" /\ exit'.msg = None)
                => \A n \in Tasks : tasks[n].result = "returned"]_vars

C8_Witness ==
    /\ mpc = "gather"
    /\ Len(tasks) = 2
    /\ tasks[1].pc = "abandoned"
    /\ tasks[2].pc = "cooldown"
    /\ tasks[2].report = "exec_error"
    /\ tasks[2].result = "pending"

InvalidTiming ==
    \/ args.run_time_min > args.run_time_max
    \/ args.downtime_min > args.downtime_max

\* C9: with run_time_min > run_time_max or downtime_min > downtime_max the only
\* thing the process does is exit with an error message and a non-zero status:
\* no task is created, no pause slept, no sandbox asked for.
C9_InvalidTimingIsFatal ==
    InvalidTiming
        => /\ tasks = <<>>
           /\ sessions = <<>>
           /\ pauses = 0
           /\ mpc \in {"start", "exited"}
           /\ mpc = "start"
                 => /\ ENABLED ExitInvalidConfig
                    /\ ~ENABLED LaunchFirst
                    /\ ~ENABLED ExitNoKeys
                    /\ ~ENABLED Interrupt
           /\ mpc = "exited"
                 => /\ exit.code # 0
                    /\ exit.msg \in
                         {"Error: --run-time-min cannot be greater than --run-time-max",
                          "Error: --downtime-min cannot be greater than --downtime-max"}

C9_Witness ==
    /\ mpc = "exited"
    /\ args.run_time_min <= args.run_time_max
    /\ args.downtime_min > args.downtime_max
    /\ exit.code = 1
    /\ BuildKeys # <<>>

\* Neither source gives a key: no prefixed environment variable has a value
\* that is not blank, and --key was not given.
NoKeyInput ==
    /\ \A k \in 1..Len(environ) :
          ~environ[k].prefixed \/ environ[k].value \in {"", " "}
    /\ args.key = <<>>

\* C10: when neither source gives a key the process exits with an error
\* message and a non-zero status, and never creates a task or asks for a
\* sandbox.
C10_NoKeysIsFatal ==
    NoKeyInput
        => /\ tasks = <<>>
           /\ sessions = <<>>
           /\ mpc \in {"start", "exited"}
           /\ mpc = "start" => ~ENABLED LaunchFirst /\ ~ENABLED Interrupt
           /\ mpc = "exited"
                 => /\ exit.code # 0
                    /\ InvalidTiming \/ exit.msg = "No API keys found"

C10_Witness ==
    /\ mpc = "exited"
    /\ environ # <<>>
    /\ NoKeyInput
    /\ exit = [code |-> 1, msg |-> "No API keys found"]

\* The two key sources one after the other: environment first, then --key.
SourceKeys == env_keys(environ) \o args.key

\* Where value v first appears in sequence s.
FirstIndex(s, v) ==
    CHOOSE n \in 1..Len(s) : s[n] = v /\ \A m \in 1..(n - 1) : s[m] # v

\* main_async has built its key list.
KeysBuilt == mpc # "start" /\ ~InvalidTiming

\* C11: the key list holds every distinct key of the two sources (environment
\* first, then --key) exactly once, in the order of first appearance.
C11_FirstSeenOrder ==
    KeysBuilt
        => /\ Range(keys) = Range(SourceKeys)
           /\ \A a, b \in 1..Len(keys) :
                 a < b => /\ keys[a] # keys[b]
                          /\ FirstIndex(SourceKeys, keys[a])
                                < FirstIndex(SourceKeys, keys[b])

C11_Witness ==
    /\ mpc = "gather"
    /\ Len(env_keys(environ)) = 2
    /\ args.key = <<"B", "A">>
    /\ keys = <<"A", "B">>

\* C12 as claimed: no key handed to the launch loop is empty or blank, and
\* sources that hold only blank entries count as no key at all.
C12_NoBlankKey ==
    /\ \A n \in 1..Len(keys) : Strip(keys[n]) # ""
    /\ \A n \in Tasks : Strip(tasks[n].key) # ""
    /\ (KeysBuilt /\ \A n \in 1..Len(SourceKeys) : Strip(SourceKeys[n]) = "")
          => keys = <<>> /\ tasks = <<>>

\* Neither source holds a key that is not blank.
NoUsableKey == \A n \in 1..Len(SourceKeys) : Strip(SourceKeys[n]) = ""

\* C13 as claimed: the process ends with a non-zero status when the timing
\* options are invalid or no usable key is present, and with status 0
\* otherwise (interrupt, or every task over).
C13_ExitCodes ==
    mpc = "exited"
        => /\ (InvalidTiming \/ NoUsableKey) => exit.code # 0
           /\ (~InvalidTiming /\ ~NoUsableKey) => exit.code = 0

AllAbandoned == \A n \in Tasks : tasks[n].pc = "abandoned"

\* C14: a task returns only by abandoning its key, never by the safeguard after
\* the retry loop, and asyncio.gather can return exactly when every task has
\* abandoned its key.
C14_OnlyAbandonmentEnds ==
    /\ \A n \in Tasks :
          /\ tasks[n].pc # "safeguard"
          /\ tasks[n].result = "returned" <=> tasks[n].pc = "abandoned"
    /\ mpc = "gather" => ((ENABLED Gather) <=> AllAbandoned)
    /\ (mpc = "exited" /\ tasks # <<>> /\ exit.msg = None) => AllAbandoned

C14_Witness ==
    /\ mpc = "exited"
    /\ exit.msg = None
    /\ Len(tasks) = 2
    /\ AllAbandoned
    /\ \E n \in Tasks : tasks[n].cycle = 1

\* C15: in every cycle the deadline of the workload is a run time of
\* run_time_min..run_time_max (230..340 with the defaults) and the cooldown
\* slept is a downtime of downtime_min..downtime_max, both fixed when the
\* sandbox of that cycle was obtained.
C15_SampledDurations ==
    \A n \in Tasks :
        /\ tasks[n].pc \in {"launch", "info", "wait"}
              => /\ tasks[n].run_time >= args.run_time_min
                 /\ tasks[n].run_time <= args.run_time_max
                 /\ (args.run_time_min = 230 /\ args.run_time_max = 340)
                       => tasks[n].run_time \in 230..340
        /\ tasks[n].pc = "wait" => tasks[n].timer = tasks[n].run_time
        /\ (InRunScope(n) \/ tasks[n].pc = "cooldown")
              => /\ tasks[n].downtime >= args.downtime_min
                 /\ tasks[n].downtime <= args.downtime_max
        /\ tasks[n].pc = "cooldown" => tasks[n].timer = tasks[n].downtime

C15_Witness ==
    \E n \in Tasks :
        /\ tasks[n].cycle = 1
        /\ tasks[n].pc = "wait"
        /\ tasks[n].timer = 340
        /\ tasks[n].downtime = 30

OpenSandboxes == { s \in DOMAIN sessions : sessions[s].state = "open" }

\* C16: every open sandbox is held by exactly one task and was created with
\* that task's key; a task has at most one open sandbox, no two tasks hold the
\* same sandbox, and there are never more open sandboxes than keys.
C16_NoSharedSession ==
    /\ \A s \in OpenSandboxes :
          /\ Cardinality({ n \in Tasks : tasks[n].sbx_instance = s }) = 1
          /\ \A n \in Tasks :
                tasks[n].sbx_instance = s => sessions[s].api_key = tasks[n].key
    /\ \A n \in Tasks :
          Cardinality({ s \in OpenSandboxes : s[1] = tasks[n].idx }) <= 1
    /\ \A n, m \in Tasks :
          (n # m /\ tasks[n].sbx_instance # NoSandbox)
              => tasks[n].sbx_instance # tasks[m].sbx_instance
    /\ Cardinality(OpenSandboxes) <= Len(keys)

C16_Witness ==
    /\ Len(tasks) = 2
    /\ Cardinality(OpenSandboxes) = 2
    /\ tasks[1].pc = "wait"
    /\ tasks[2].pc = "wait"
    /\ tasks[1].cycle = 1

\* ------------------------------------------------------------ persistent mode
\* The run-until-stopped variant of the task.  main.py holds the cyclic variant
\* only; this one follows the design document: the same retry loop with a
\* fixed backoff, then one blocking execution of the workload with no
\* deadline, after which the task ends and leaves its sandbox alive.
PERSISTENT_BACKOFF == 5

\* create returned sbx: the workload is executed as a blocking call.
OnPersistentOpenOk(c, sbx) ==
    [c EXCEPT !.sbx_instance = sbx, !.attempt = 0, !.opens = 0, !.backoffs = 0,
              !.pc = "executing"]

\* Mutant: the task tidies up and goes on as the cyclic variant does.
OnExecuteEndCooldown(c, exc) ==
    [c EXCEPT !.pc = "cooldown", !.report = ReportOf(exc), !.timer = 30]

\* The blocking call returned (None) or raised exc: the outcome is logged and
\* the task ends.
OnExecuteEnd(c, exc) ==
    [c EXCEPT !.pc = "finished",
              !.report = IF exc = None THEN "exited" ELSE ReportOf(exc),
              !.result = "returned"]

PersistentOpenOk(n) ==
    /\ Runnable(n)
    /\ tasks[n].pc = "opening"
    /\ tasks' = [tasks EXCEPT ![n] = OnPersistentOpenOk(@, SandboxId(@))]
    /\ sessions' = Create(sessions, SandboxId(tasks[n]), tasks[n].key)
    /\ UNCHANGED MainVars

PersistentOpenFail(n) ==
    /\ Runnable(n)
    /\ tasks[n].pc = "opening"
    /\ tasks' = [tasks EXCEPT ![n] = OnOpenFail(@, PERSISTENT_BACKOFF)]
    /\ UNCHANGED <<MainVars, sessions>>

ExecuteReturns(n) ==
    /\ Runnable(n)
    /\ tasks[n].pc = "executing"
    /\ tasks' = [tasks EXCEPT ![n] = OnExecuteEnd(@, None)]
    /\ UNCHANGED <<MainVars, sessions>>

ExecuteRaises(n) ==
    /\ Runnable(n)
    /\ tasks[n].pc = "executing"
    /\ tasks' = [tasks EXCEPT ![n] = OnExecuteEnd(@, "Exception")]
    /\ UNCHANGED <<MainVars, sessions>>

PersistentStep(n) ==
    \/ TaskStart(n)
    \/ PersistentOpenOk(n)
    \/ PersistentOpenFail(n)
    \/ BackoffWake(n)
    \/ ExecuteReturns(n)
    \/ ExecuteRaises(n)

PersistentNext ==
    \/ MainStep
    \/ \E n \in Tasks : PersistentStep(n)

PersistentSpec == Init /\ [][PersistentNext]_vars

\* C17: in persistent mode, when the workload raises after a successful create
\* call, the task logs the execution error and ends there: its sandbox is left
\* open, and the task never sleeps a cooldown, connects again or runs the
\* workload again.
C17_PersistentErrorEnds ==
    /\ [](\A n \in Tasks :
            /\ tasks[n].pc \notin {"cooldown", "launch", "info", "wait", "closing"}
            /\ tasks[n].pc = "finished"
                  => /\ tasks[n].result = "returned"
                     /\ tasks[n].report \in {"exec_error", "exited"}
                     /\ tasks[n].timer = 0
                     /\ tasks[n].sbx_instance \in DOMAIN sessions
                     /\ sessions[tasks[n].sbx_instance].state = "open")
    /\ [][\A n \in Tasks :
            /\ (tasks[n].pc = "executing" /\ tasks'[n].report = "exec_error")
                  => /\ tasks'[n].pc = "finished"
                     /\ sessions' = sessions
            /\ tasks[n].pc = "finished" => tasks'[n] = tasks[n]]_vars

C17_Witness ==
    /\ mpc = "exited"
    /\ \E n \in Tasks :
          /\ tasks[n].pc = "finished"
          /\ tasks[n].report = "exec_error"
          /\ sessions[tasks[n].sbx_instance].state = "open"

\* C18: when the process is stopped by an interrupt while tasks are running,
\* the operator is told more than the generic shutdown line: the output warns
\* that remote sandboxes may go on running.
C18_InterruptWarns ==
    (mpc = "exited" /\ \E n \in Tasks : tasks[n].result = "cancelled")
        => exit.msg # "Interrupted - shutting down."

\* The lifecycle state of a task.
LifeState(c) ==
    CASE c.pc \in {"ready", "opening", "backoff"} -> "Connecting"
      [] c.pc \in {"launch", "info", "wait", "closing"} -> "Running"
      [] c.pc = "cooldown" -> "Cooldown"
      [] c.pc = "abandoned" -> "Abandoned"
      [] OTHER -> "Ended"

\* C19: short of an interrupt, a task's lifecycle state changes only from
\* Connecting to Running (its create call returned), from Connecting to
\* Abandoned (its 10th create call in a row failed), from Running to Cooldown
\* (the run scope was left) and from Cooldown to Connecting (the cooldown
\* elapsed); a returned create call is followed at once by the launch of the
\* workload, with no further create call and no fail cooldown in between; and
\* a step of one task changes no other task.
C19_LocalTransitions ==
    /\ [](\A n \in Tasks : LifeState(tasks[n]) = "Ended"
                              => tasks[n].pc = "cancelled")
    /\ [][\A n \in Tasks :
            (n \in DOMAIN tasks' /\ tasks'[n].pc # "cancelled")
            => LET c == tasks[n]
                   d == tasks'[n]
                   s == LifeState(tasks[n])
                   t == LifeState(tasks'[n])
               IN  /\ s # t
                        => \/ /\ s = "Connecting" /\ t = "Running"
                              /\ c.pc = "opening"
                              /\ d.pc = "launch"
                              /\ d.sbx_instance \in DOMAIN sessions'
                              /\ sessions'[d.sbx_instance].state = "open"
                              /\ d.slept = c.slept
                              /\ d.timer = 0
                           \/ /\ s = "Connecting" /\ t = "Abandoned"
                              /\ c.pc = "opening"
                              /\ c.opens = 10
                           \/ /\ s = "Running" /\ t = "Cooldown"
                              /\ c.pc = "closing"
                           \/ /\ s = "Cooldown" /\ t = "Connecting"
                              /\ d.pc = "opening"
                   /\ c.pc = "launch" => d.pc \in {"launch", "info", "closing"}
                   /\ d # c => \A m \in Tasks \ {n} : tasks'[m] = tasks[m]]_vars

C19_Witness ==
    /\ Len(tasks) = 2
    /\ tasks[1].cycle = 1
    /\ tasks[1].pc = "launch"
    /\ tasks[2].pc = "backoff"

\* C20: the attempt budget belongs to one connection phase.  A create call is
\* issued only at the start of the task, after a fail cooldown or after the
\* cooldown of a run, never straight after another call; the first call of every
\* phase is attempt 1 of 10 whatever failed in earlier cycles, each call after a
\* fail cooldown is the next attempt of the same phase, and a key is abandoned
\* exactly when the 10th call of one phase fails.
C20_BudgetPerPhase ==
    /\ [](\A n \in Tasks :
            /\ tasks[n].pc = "opening" => tasks[n].attempt = tasks[n].opens - 1
            /\ tasks[n].pc = "abandoned"
                  => tasks[n].attempt = 9 /\ tasks[n].opens = 10)
    /\ [][\A n \in Tasks :
            n \in DOMAIN tasks'
            => LET c == tasks[n]
                   d == tasks'[n]
               IN  /\ (d.pc = "opening" /\ d # c)
                        => /\ c.pc \in {"ready", "backoff", "cooldown"}
                           /\ c.pc # "ready" => c.slept
                           /\ ~d.slept
                           /\ d.opens = IF c.pc = "backoff" THEN c.opens + 1
                                        ELSE 1
                   /\ (d.pc = "abandoned" /\ c.pc # "abandoned")
                        => c.pc = "opening" /\ c.opens = 10
                   /\ (OpenFailed(n) /\ c.opens < 10) => d.pc = "backoff"
                   /\ (OpenFailed(n) /\ c.opens = 10) => d.pc = "abandoned"]_vars

C20_Witness ==
    \E n \in Tasks :
        /\ tasks[n].cycle = 1
        /\ tasks[n].pc = "abandoned"
        /\ tasks[n].opens = 10
====
